---- MODULE Spec2Model ----
(***************************************************************************)
(* Model of aws-ssm-parameter-cache: ParameterCache (an LRU mapping from   *)
(* parameter name to CacheItem, owned by one instance) and the per-call    *)
(* GetParameterStringBuilder whose send() serves from the cache or fetches *)
(* from AWS SSM and repopulates.                                           *)
(*                                                                         *)
(* The LRU mapping is a sequence of items: index 1 is the least recently   *)
(* used item, the last index the most recently used one.                   *)
(***************************************************************************)
EXTENDS Integers, Sequences, FiniteSets, TLC

\* ---------------------------------------------------------------- bounds
MaxCacheSize == 2      \* largest configured max_cache_size tried
MaxTtl == 2            \* largest configured cache_item_ttl tried
MaxTime == 2           \* the clock stops advancing here
MaxVal == 2            \* parameter values are 1..MaxVal

Keys == {"a", "b", "c"}
Values == 1 .. MaxVal
Errors == {"NotFound", "Transport", "Other"}
Tasks == {"t1", "t2"}    \* callers that share the cache instance

VARIABLES
    config,     \* ParameterCache.config: [max_cache_size, cache_item_ttl]
    cap,        \* capacity of ParameterCache.cache (LruCache::cap)
    cache,      \* ParameterCache.cache: sequence of CacheItems, LRU first
    now,        \* the system clock
    pc,         \* per task: idle / built / fetching / done / panicked
    builder,    \* per task: GetParameterStringBuilder fields
    result,     \* per task: what send() returned
    nfetch,     \* per task: remote fetches issued by the current send()
    seen,       \* per task: absent / fresh / expired, the key's item as send() found it
    prior,      \* per task: last[key] as the current send() found it
    resp,       \* per task: the response the remote fetch produced
    evicted,    \* per task: the key the current send() evicted, "" when none
    last,       \* per cached key: the value the last successful lookup of the
                \* key returned
    order,      \* cached keys by last successful use (hit or put), oldest first
    stored      \* per cached key: time and value of the last successful fetch's put

vars == <<config, cap, cache, now, pc, builder, result, nfetch,
          seen, prior, resp, evicted, last, order, stored>>

\* ------------------------------------------------------------ result values
NoResult == [kind |-> "none", value |-> 0, err |-> "none"]
Ok(v) == [kind |-> "ok", value |-> v, err |-> "none"]

ErrRewrapped(e) == [kind |-> "err", value |-> 0, err |-> "Transport"]

\* cache.rs:105  Err(e) => Err(e)
Err(e) == [kind |-> "err", value |-> 0, err |-> e]

\* responses of client.get_parameter().name(..).send().await
NoResponse == [kind |-> "none", err |-> "none", parameter |-> FALSE,
               has_value |-> FALSE, value |-> 0]
RespErr(e) == [kind |-> "err", err |-> e, parameter |-> FALSE,
               has_value |-> FALSE, value |-> 0]
RespValue(v) == [kind |-> "ok", err |-> "none", parameter |-> TRUE,
                 has_value |-> TRUE, value |-> v]
RespNoValue(p) == [kind |-> "ok", err |-> "none", parameter |-> p,
                   has_value |-> FALSE, value |-> 0]

NoLookup == [kind |-> "none", value |-> 0]
NoStore == [at |-> -1, value |-> 0]
NoBuilder == [parameter_name |-> "", force_refresh |-> FALSE]

\* -------------------------------------------------------------- CacheItem
\* CacheItem::new(value, ttl): expires_at = creation time + ttl
CacheItemNew(k, v, ttl, t) == [key |-> k, value |-> v, expires_at |-> t + ttl]

\* CacheItem::is_expired(): now >= expires_at
IsExpired(item, t) == t >= item.expires_at

\* --------------------------------------------------------------- LruCache
KeysOf(c) == {c[i].key : i \in 1 .. Len(c)}

\* index of key k in c, 0 when absent
Find(c, k) ==
    IF k \in KeysOf(c) THEN CHOOSE i \in 1 .. Len(c) : c[i].key = k ELSE 0

Without(c, i) == SubSeq(c, 1, i - 1) \o SubSeq(c, i + 1, Len(c))

LruGetNoPromote(c, k) == c

LruPop(c, k) == IF Find(c, k) = 0 THEN c ELSE Without(c, Find(c, k))

\* LruCache::get: a present key becomes the most recently used
LruGet(c, k) ==
    IF Find(c, k) = 0 THEN c ELSE Append(Without(c, Find(c, k)), c[Find(c, k)])

LruPutNoEvict(c, n, item) ==
    IF Find(c, item.key) # 0 THEN Append(Without(c, Find(c, item.key)), item)
    ELSE Append(c, item)

LruPutKeepOld(c, n, item) ==
    IF Find(c, item.key) # 0 THEN LruGet(c, item.key)
    ELSE IF Len(c) >= n THEN Append(Tail(c), item)
    ELSE Append(c, item)

\* LruCache::put: replace and promote a present key; otherwise evict the
\* least recently used item when full, then insert as most recently used
LruPut(c, n, item) ==
    IF Find(c, item.key) # 0 THEN Append(Without(c, Find(c, item.key)), item)
    ELSE IF Len(c) >= n THEN Append(Tail(c), item)
    ELSE Append(c, item)

\* --------------------------------------------------------- ParameterCache
\* new_cache: NonZeroUsize::new(config.max_cache_size).unwrap_or(1)
NewCacheCap(max_cache_size) == IF max_cache_size # 0 THEN max_cache_size ELSE 1

ServeIgnoringExpiry(force, c, k, t) == ~force /\ Find(c, k) # 0

ServeNever(force, c, k, t) == FALSE

ServeUntilAfterExpiry(force, c, k, t) ==
    ~force /\ Find(c, k) # 0 /\ t <= c[Find(c, k)].expires_at

\* send(): the condition under which the cached value is returned
ServeFromCache(force, c, k, t) ==
    ~force /\ Find(c, k) # 0 /\ ~IsExpired(c[Find(c, k)], t)

StoreFetchedNowhere(c, n, k, v, ttl, t) == c

StoreFetchedKeepItem(c, n, k, v, ttl, t) ==
    IF Find(c, k) # 0 THEN LruGet(c, k) ELSE LruPut(c, n, CacheItemNew(k, v, ttl, t))

StoreFetchedOldExpiry(c, n, k, v, ttl, t) ==
    IF Find(c, k) # 0
    THEN LruPut(c, n, [key |-> k, value |-> v, expires_at |-> c[Find(c, k)].expires_at])
    ELSE LruPut(c, n, CacheItemNew(k, v, ttl, t))

\* send(), Ok branch: CacheItem::new(value, cache_item_ttl) is put under the key
StoreFetched(c, n, k, v, ttl, t) == LruPut(c, n, CacheItemNew(k, v, ttl, t))

\* ------------------------------------------------------- history helpers
\* move k to the end of the sequence of keys s (adding it when absent)
Touch(s, k) == SelectSeq(s, LAMBDA x : x # k) \o <<k>>

Restrict(s, S) == SelectSeq(s, LAMBDA x : x \in S)

\* what a lookup of k finds in c at time t: no item, an item whose expiry
\* instant lies ahead, or an item whose expiry instant has passed
Seen(c, k, t) ==
    IF Find(c, k) = 0 THEN "absent"
    ELSE IF t < c[Find(c, k)].expires_at THEN "fresh" ELSE "expired"

HoldsNever(t) == FALSE

HoldsUntilAwait(t) == pc[t] = "built"

\* the builder of task t is alive and holds its &'a mut ParameterCache
Holds(t) == pc[t] \in {"built", "fetching", "done"}

\* the lookup of task t is over: send() returned, or the task aborted
Finished(t) == pc[t] \in {"done", "panicked"}

\* -------------------------------------------------------------------- Init
\* CacheConfig supplied at construction; ParameterCache::new_cache
Init ==
    /\ config \in [max_cache_size : 0 .. MaxCacheSize, cache_item_ttl : 0 .. MaxTtl]
    /\ cap = NewCacheCap(config.max_cache_size)
    /\ cache = <<>>
    /\ now = 0
    /\ pc = [t \in Tasks |-> "idle"]
    /\ builder = [t \in Tasks |-> NoBuilder]
    /\ result = [t \in Tasks |-> NoResult]
    /\ nfetch = [t \in Tasks |-> 0]
    /\ seen = [t \in Tasks |-> "none"]
    /\ prior = [t \in Tasks |-> NoLookup]
    /\ resp = [t \in Tasks |-> NoResponse]
    /\ evicted = [t \in Tasks |-> ""]
    /\ last = [k \in Keys |-> NoLookup]
    /\ order = <<>>
    /\ stored = [k \in Keys |-> NoStore]

\* the per-call bookkeeping of task t is reset
ResetCall(t) ==
    /\ result' = [result EXCEPT ![t] = NoResult]
    /\ nfetch' = [nfetch EXCEPT ![t] = 0]
    /\ seen' = [seen EXCEPT ![t] = "none"]
    /\ prior' = [prior EXCEPT ![t] = NoLookup]
    /\ resp' = [resp EXCEPT ![t] = NoResponse]
    /\ evicted' = [evicted EXCEPT ![t] = ""]

\* ----------------------------------------------------------------- actions
\* ParameterCache::get_parameter(&'a mut self, name): the builder borrows the
\* cache exclusively, so no other builder exists while this one lives
GetParameter(t, k) ==
    /\ pc[t] = "idle"
    /\ \A u \in Tasks : ~Holds(u) /\ pc[u] # "panicked"
    /\ pc' = [pc EXCEPT ![t] = "built"]
    /\ builder' = [builder EXCEPT ![t] = [parameter_name |-> k, force_refresh |-> FALSE]]
    /\ ResetCall(t)
    /\ UNCHANGED <<config, cap, cache, now, last, order, stored>>

ForceRefreshToggles(t) ==
    /\ pc[t] \in {"built", "done"}
    /\ pc' = [pc EXCEPT ![t] = "built"]
    /\ builder' = [builder EXCEPT ![t].force_refresh = ~builder[t].force_refresh]
    /\ ResetCall(t)
    /\ UNCHANGED <<config, cap, cache, now, last, order, stored>>

\* GetParameterStringBuilder::force_refresh(mut self) -> Self
ForceRefresh(t) ==
    /\ pc[t] \in {"built", "done"}
    /\ pc' = [pc EXCEPT ![t] = "built"]
    /\ builder' = [builder EXCEPT ![t].force_refresh = TRUE]
    /\ ResetCall(t)
    /\ UNCHANGED <<config, cap, cache, now, last, order, stored>>

\* GetParameterStringBuilder::send, up to the await of the remote fetch
Send(t) ==
    LET k == builder[t].parameter_name
        f == builder[t].force_refresh
        hit == ServeFromCache(f, cache, k, now)
    IN  /\ pc[t] \in {"built", "done"}
        /\ cache' = IF f THEN cache ELSE LruGet(cache, k)
        /\ seen' = [seen EXCEPT ![t] = Seen(cache, k, now)]
        /\ prior' = [prior EXCEPT ![t] = last[k]]
        /\ resp' = [resp EXCEPT ![t] = NoResponse]
        /\ evicted' = [evicted EXCEPT ![t] = ""]
        /\ IF hit
           THEN /\ pc' = [pc EXCEPT ![t] = "done"]
                /\ result' = [result EXCEPT ![t] = Ok(cache[Find(cache, k)].value)]
                /\ nfetch' = [nfetch EXCEPT ![t] = 0]
                /\ last' = [last EXCEPT ![k] =
                               [kind |-> "ok", value |-> cache[Find(cache, k)].value]]
                /\ order' = Touch(order, k)
           ELSE /\ pc' = [pc EXCEPT ![t] = "fetching"]
                /\ result' = [result EXCEPT ![t] = NoResult]
                /\ nfetch' = [nfetch EXCEPT ![t] = 1]
                /\ UNCHANGED <<last, order>>
        /\ UNCHANGED <<config, cap, now, builder, stored>>

\* send(): fetch_parameter() returned Ok(parameter_value)
FetchOk(t, v) ==
    LET k == builder[t].parameter_name
        c2 == StoreFetched(cache, cap, k, v, config.cache_item_ttl, now)
    IN  /\ pc[t] = "fetching"
        /\ cache' = c2
        /\ pc' = [pc EXCEPT ![t] = "done"]
        /\ result' = [result EXCEPT ![t] = Ok(v)]
        /\ resp' = [resp EXCEPT ![t] = RespValue(v)]
        /\ evicted' = [evicted EXCEPT ![t] =
                         IF KeysOf(cache) \ KeysOf(c2) = {} THEN ""
                         ELSE CHOOSE x \in KeysOf(cache) \ KeysOf(c2) : TRUE]
        /\ last' = [x \in Keys |->
                      IF x = k
                      THEN [kind |-> "ok", value |-> v]
                      ELSE IF x \in KeysOf(cache) \ KeysOf(c2) THEN NoLookup
                      ELSE last[x]]
        /\ order' = Touch(Restrict(order, KeysOf(c2)), k)
        /\ stored' = [x \in Keys |->
                        IF x = k THEN [at |-> now, value |-> v]
                        ELSE IF x \in KeysOf(cache) \ KeysOf(c2) THEN NoStore
                        ELSE stored[x]]
        /\ UNCHANGED <<config, cap, now, builder, nfetch, seen, prior>>

\* send(): fetch_parameter() returned Err(e)
FetchErr(t, e) ==
    /\ pc[t] = "fetching"
    /\ pc' = [pc EXCEPT ![t] = "done"]
    /\ result' = [result EXCEPT ![t] = Err(e)]
    /\ resp' = [resp EXCEPT ![t] = RespErr(e)]
    /\ UNCHANGED <<config, cap, cache, now, builder, nfetch, seen,
                   prior, evicted, last, order, stored>>

\* fetch_parameter(): the response is Ok but carries no parameter (p = FALSE)
\* or a parameter without a value (p = TRUE); unwrap() panics
FetchUnwrapNone(t, p) ==
    /\ pc[t] = "fetching"
    /\ pc' = [pc EXCEPT ![t] = "panicked"]
    /\ resp' = [resp EXCEPT ![t] = RespNoValue(p)]
    /\ UNCHANGED <<config, cap, cache, now, builder, result, nfetch,
                   seen, prior, evicted, last, order, stored>>

\* the builder goes out of scope and the borrow of the cache ends
Drop(t) ==
    /\ pc[t] \in {"built", "done"}
    /\ pc' = [pc EXCEPT ![t] = "idle"]
    /\ builder' = [builder EXCEPT ![t] = NoBuilder]
    /\ ResetCall(t)
    /\ UNCHANGED <<config, cap, cache, now, last, order, stored>>

\* the system clock advances
Tick ==
    /\ now < MaxTime
    /\ now' = now + 1
    /\ UNCHANGED <<config, cap, cache, pc, builder, result, nfetch,
                   seen, prior, resp, evicted, last, order, stored>>

Next ==
    \/ \E t \in Tasks, k \in Keys : GetParameter(t, k)
    \/ \E t \in Tasks : ForceRefresh(t)
    \/ \E t \in Tasks : Send(t)
    \/ \E t \in Tasks, v \in Values : FetchOk(t, v)
    \/ \E t \in Tasks, e \in Errors : FetchErr(t, e)
    \/ \E t \in Tasks, p \in BOOLEAN : FetchUnwrapNone(t, p)
    \/ \E t \in Tasks : Drop(t)
    \/ Tick

Spec == Init /\ [][Next]_vars

\* the remote call of fetch_parameter() returns, with whatever outcome
Respond(t) ==
    \/ \E v \in Values : FetchOk(t, v)
    \/ \E e \in Errors : FetchErr(t, e)
    \/ \E p \in BOOLEAN : FetchUnwrapNone(t, p)

\* every remote fetch eventually returns
FairSpec == Spec /\ \A t \in Tasks : WF_vars(Respond(t))

TypeOK ==
    /\ cap \in 1 .. MaxCacheSize
    /\ now \in 0 .. MaxTime
    /\ \A t \in Tasks : pc[t] \in {"idle", "built", "fetching", "done", "panicked"}
    /\ \A t \in Tasks : nfetch[t] \in 0 .. 1

\* ------------------------------------------------------------------ claims
\* the item cached under key k (k must be cached)
ItemOf(c, k) == c[Find(c, k)]

ItemSet(c) == {c[i] : i \in 1 .. Len(c)}

NameOf(t) == builder[t].parameter_name

\* C1: when a lookup of k succeeded and the next lookup of k is not forced and
\* finds the item before its expiry instant (k was not evicted in between),
\* that lookup performs no remote fetch and returns the value the earlier
\* lookup returned.
C1_RepeatedLookupIsServedFromCache ==
    \A t \in Tasks :
        (pc[t] = "done" /\ ~builder[t].force_refresh
            /\ prior[t].kind = "ok" /\ seen[t] = "fresh")
        => (nfetch[t] = 0
            /\ result[t] = [kind |-> "ok", value |-> prior[t].value, err |-> "none"])

C1_Witness ==
    \E t \in Tasks :
        /\ pc[t] = "done" /\ ~builder[t].force_refresh
        /\ prior[t].kind = "ok" /\ seen[t] = "fresh"
        /\ nfetch[t] = 0 /\ result[t].kind = "ok"
        /\ now > 0

\* C2: a lookup of a key that is not cached performs exactly one remote
\* fetch; when the fetch returns a value, the cache then holds the key with
\* that value and the lookup returns that value.
C2_MissFetchesOnceAndCaches ==
    \A t \in Tasks :
        /\ (Finished(t) /\ seen[t] = "absent") => nfetch[t] = 1
        /\ (pc[t] = "done" /\ seen[t] = "absent" /\ resp[t].has_value)
           => (/\ Find(cache, NameOf(t)) # 0
               /\ ItemOf(cache, NameOf(t)).value = resp[t].value
               /\ result[t] = [kind |-> "ok", value |-> resp[t].value, err |-> "none"])
        /\ (pc[t] = "done" /\ seen[t] = "absent" /\ result[t].kind = "ok")
           => resp[t].has_value

C2_Witness ==
    \E t \in Tasks :
        /\ pc[t] = "done" /\ seen[t] = "absent" /\ nfetch[t] = 1
        /\ result[t].kind = "ok" /\ evicted[t] # ""
        /\ Find(cache, NameOf(t)) # 0

\* C3: a lookup of a key whose cached item is expired (time >= expiry instant)
\* performs exactly one remote fetch, forced or not, and a value it returns
\* is the fetched one, never the expired one.
C3_ExpiredItemIsRefetched ==
    \A t \in Tasks :
        /\ (Finished(t) /\ seen[t] = "expired") => nfetch[t] = 1
        /\ (pc[t] = "done" /\ seen[t] = "expired" /\ result[t].kind = "ok")
           => (resp[t].has_value /\ result[t].value = resp[t].value)

C3_Witness ==
    \E t \in Tasks :
        /\ pc[t] = "done" /\ seen[t] = "expired" /\ ~builder[t].force_refresh
        /\ nfetch[t] = 1 /\ result[t].kind = "ok"
        /\ prior[t].kind = "ok" /\ prior[t].value # result[t].value

C4_Step ==
    \A t \in Tasks :
        builder[t].force_refresh =>
            /\ Send(t) => (pc'[t] = "fetching" /\ nfetch'[t] = 1 /\ cache' = cache)
            /\ \A v \in Values :
                 FetchOk(t, v) =>
                    /\ Find(cache', NameOf(t)) # 0
                    /\ ItemOf(cache', NameOf(t)) =
                          [key |-> NameOf(t), value |-> v,
                           expires_at |-> now + config.cache_item_ttl]
                    /\ result'[t] = [kind |-> "ok", value |-> v, err |-> "none"]
                    /\ nfetch'[t] = 1

\* C4: a forced lookup performs exactly one remote fetch, also when a fresh
\* item is cached; when the fetch returns a value, the item cached under the
\* key becomes that value with expiry (time of the put) + ttl, and the value
\* is returned.
C4_ForcedRefreshFetchesAndReplaces ==
    /\ [](\A t \in Tasks : (Finished(t) /\ builder[t].force_refresh) => nfetch[t] = 1)
    /\ [][C4_Step]_vars

C4_Witness ==
    \E t \in Tasks :
        /\ pc[t] = "done" /\ builder[t].force_refresh /\ seen[t] = "fresh"
        /\ nfetch[t] = 1 /\ result[t].kind = "ok"
        /\ prior[t].kind = "ok" /\ prior[t].value # result[t].value
        /\ ItemOf(cache, NameOf(t)).value = result[t].value

\* the capacity the configuration asks for: max_cache_size, or 1 when it is 0
EffectiveCapacity == IF config.max_cache_size > 0 THEN config.max_cache_size ELSE 1

\* C5: the number of cached items never exceeds the effective capacity, and
\* every configuration, max_cache_size = 0 included, yields a usable cache.
C5_SizeWithinEffectiveCapacity ==
    /\ cap = EffectiveCapacity
    /\ Len(cache) <= EffectiveCapacity
    /\ Cardinality(KeysOf(cache)) = Len(cache)

C5_Witness ==
    /\ config.max_cache_size = 0
    /\ Len(cache) = 1
    /\ \E t \in Tasks : pc[t] = "done" /\ evicted[t] # "" /\ result[t].kind = "ok"

\* a non-forced send() that finds an item before its expiry instant returns
\* the item's value without a remote fetch
HitStep ==
    \A t \in Tasks :
        (Send(t) /\ ~builder[t].force_refresh /\ Seen(cache, NameOf(t), now) = "fresh")
        => (/\ pc'[t] = "done"
            /\ nfetch'[t] = 0
            /\ result'[t] = [kind |-> "ok", value |-> ItemOf(cache, NameOf(t)).value,
                             err |-> "none"])

C6_Step ==
    \A t \in Tasks, v \in Values :
        (/\ FetchOk(t, v)
         /\ Find(cache, NameOf(t)) = 0
         /\ Len(cache) = cap
         /\ \A i \in 1 .. Len(cache) : now < cache[i].expires_at)
        => (/\ KeysOf(cache') = (KeysOf(cache) \ {order[1]}) \cup {NameOf(t)}
            /\ Cardinality(KeysOf(cache')) = cap
            /\ \A x \in KeysOf(cache) \ {order[1]} : ItemOf(cache', x) = ItemOf(cache, x)
            /\ \A i \in 1 .. Len(cache') : now < cache'[i].expires_at)

\* C6: when a fetched key is inserted into a full cache none of whose items is
\* expired, exactly the key used longest ago (hit or put) disappears; the
\* other keys keep their items, and every cached key whose item is not expired
\* is served to a non-forced lookup without a remote fetch.
C6_InsertBeyondCapacityEvictsLeastRecentlyUsed == [][C6_Step /\ HitStep]_vars

C6_Witness ==
    \E t \in Tasks :
        /\ cap = 2 /\ pc[t] = "done" /\ NameOf(t) = "c" /\ evicted[t] = "b"
        /\ Len(cache) = 2 /\ cache[1].key = "a" /\ cache[2].key = "c"
        /\ cache[1].expires_at < cache[2].expires_at
        /\ now < cache[1].expires_at

C7_Step ==
    \A t \in Tasks :
        /\ \A e \in Errors : FetchErr(t, e) => cache' = cache
        /\ (Send(t) /\ pc'[t] = "fetching") => ItemSet(cache') = ItemSet(cache)

\* C7: a lookup whose fetch fails leaves every cached item as it was (the
\* looked-up key's item keeps value and expiry, a missing key gets no item, no
\* key is removed), and an item that is not expired is then served to a
\* non-forced lookup without a fetch.
C7_FailedFetchLeavesCacheUntouched == [][C7_Step /\ HitStep]_vars

C7_Witness ==
    \E t \in Tasks :
        /\ pc[t] = "done" /\ result[t].kind = "err" /\ builder[t].force_refresh
        /\ seen[t] = "fresh" /\ prior[t].kind = "ok"
        /\ Seen(cache, NameOf(t), now) = "fresh"
        /\ ItemOf(cache, NameOf(t)).value = prior[t].value
        /\ Len(cache) = 2

\* C8: a lookup whose fetch fails returns the failure the fetch produced,
\* unchanged, after exactly one fetch attempt.
C8_FailureIsPassedThroughWithoutRetry ==
    \A t \in Tasks :
        /\ (Finished(t) /\ resp[t].kind = "err")
           => (/\ pc[t] = "done"
               /\ result[t] = [kind |-> "err", value |-> 0, err |-> resp[t].err]
               /\ nfetch[t] = 1)
        /\ (pc[t] = "done" /\ result[t].kind = "err") => resp[t].kind = "err"

C8_Witness ==
    \E t \in Tasks :
        /\ pc[t] = "done" /\ resp[t].kind = "err" /\ resp[t].err = "NotFound"
        /\ result[t].err = "NotFound" /\ nfetch[t] = 1

\* C9: whatever the remote fetch responds, a lookup ends by returning a value
\* or the fetch's failure; the engine itself never aborts.
C9_EngineNeverAborts == \A t \in Tasks : pc[t] # "panicked"

\* C10: with cache_item_ttl = 0 every lookup performs a remote fetch; none is
\* served from the cache.
C10_ZeroTtlAlwaysFetches ==
    config.cache_item_ttl = 0 =>
        \A t \in Tasks : pc[t] = "done" => (nfetch[t] = 1 /\ resp[t].kind # "none")

C10_Witness ==
    \E t \in Tasks :
        /\ config.cache_item_ttl = 0
        /\ pc[t] = "done" /\ ~builder[t].force_refresh /\ seen[t] = "expired"
        /\ prior[t].kind = "ok" /\ nfetch[t] = 1 /\ result[t].kind = "ok"

\* the cached keys, least recently used first
KeySeq(c) == [i \in 1 .. Len(c) |-> c[i].key]

\* C11 (as claimed): lookups on one instance are not serialised: while a
\* fetch for a key is in flight, another caller can start a lookup of the same
\* key on the same instance, so that two fetches for it are in flight.
C11_ConcurrentLookupsMayOverlap ==
    \A t, u \in Tasks :
        (t # u /\ pc[t] = "fetching" /\ pc[u] = "idle")
        => ENABLED GetParameter(u, NameOf(t))

\* C11 (amended): lookups on one instance are serialised, at most one fetch
\* is in flight at a time; lookups of the same key that follow one another may
\* each fetch and write, and the cached value is the one written last.
C11_LookupsAreSerialised ==
    \A t \in Tasks :
        /\ \A u \in Tasks : (pc[t] = "fetching" /\ pc[u] = "fetching") => t = u
        /\ (pc[t] = "done" /\ nfetch[t] = 1 /\ result[t].kind = "ok")
           => (/\ Find(cache, NameOf(t)) # 0
               /\ ItemOf(cache, NameOf(t)).value = result[t].value)

C11_Witness ==
    \E t \in Tasks :
        /\ config.cache_item_ttl = 0 /\ now = 0
        /\ pc[t] = "done" /\ nfetch[t] = 1 /\ ~builder[t].force_refresh
        /\ seen[t] = "expired" /\ prior[t].kind = "ok"
        /\ result[t].kind = "ok" /\ result[t].value # prior[t].value
        /\ ItemOf(cache, NameOf(t)).value = result[t].value

C12_Step ==
    \A t \in Tasks :
        /\ \A k \in Keys :
              GetParameter(t, k) =>
                 /\ builder'[t] = [parameter_name |-> k, force_refresh |-> FALSE]
                 /\ cache' = cache /\ nfetch'[t] = 0 /\ pc'[t] = "built"
        /\ ForceRefresh(t)
           => (/\ builder'[t] = [parameter_name |-> NameOf(t), force_refresh |-> TRUE]
               /\ cache' = cache /\ nfetch'[t] = 0 /\ pc'[t] = "built")

\* C12: a new builder targets its key with force_refresh = FALSE;
\* force_refresh() makes the flag TRUE (and keeps it TRUE when applied again)
\* and leaves the key and the cache as they were; a builder that has not been
\* sent has fetched nothing.
C12_BuilderDefaultsAndForceRefresh ==
    /\ [](\A t \in Tasks : pc[t] = "built" => (nfetch[t] = 0 /\ resp[t].kind = "none"))
    /\ [][C12_Step]_vars

C12_Witness ==
    \E t \in Tasks :
        /\ pc[t] = "built" /\ builder[t].force_refresh
        /\ Find(cache, NameOf(t)) # 0 /\ Len(cache) = 2

\* C13: after a lookup whose fetch failed, the cached keys are still in the
\* order of their last successful use (hit or put): the failed lookup did not
\* count as a use, so the next eviction victim is the same as before it.
C13_FailedFetchIsNotAUse ==
    \A t \in Tasks :
        (pc[t] = "done" /\ result[t].kind = "err") => KeySeq(cache) = order

C14_Step ==
    \A t \in Tasks :
        pc[t] = "fetching" =>
            /\ cache' = cache \/ pc'[t] = "done"
            /\ \A u \in Tasks \ {t} : pc'[u] = pc[u]

\* C14: at most one builder is alive per cache instance, and while a lookup
\* waits for its fetch nobody else reads or writes the cache: the cache
\* changes only by that lookup's own put.
C14_BuilderHoldsExclusiveAccess ==
    /\ [](Cardinality({t \in Tasks : pc[t] \in {"built", "fetching", "done"}}) <= 1)
    /\ [][C14_Step]_vars

C14_Witness ==
    \E t, u \in Tasks :
        /\ t # u /\ pc[t] = "fetching" /\ pc[u] = "idle"
        /\ seen[t] = "expired" /\ Len(cache) = 2

C15_Step ==
    /\ KeysOf(cache) \ KeysOf(cache') # {}
       => \E t \in Tasks, v \in Values :
             /\ FetchOk(t, v)
             /\ Find(cache, NameOf(t)) = 0
             /\ Len(cache) = cap
             /\ KeysOf(cache) \ KeysOf(cache') = {order[1]}
    /\ \A t \in Tasks, v \in Values :
          (FetchOk(t, v) /\ Find(cache, NameOf(t)) # 0) => KeysOf(cache') = KeysOf(cache)

\* C15: a key leaves the cache only when a fetch succeeds for a key that is
\* not cached while the cache is full, and then exactly the key used longest
\* ago (last successful hit or put) leaves; a successful refetch of a cached
\* key evicts nothing, and an expired item stays until overwritten or evicted.
C15_OnlyCapacityPressureEvictsLeastRecentlyUsed == [][C15_Step]_vars

\* C16: after a successful lookup of k (hit, fetch after miss or expiry,
\* forced refresh) k is cached and is the most recently used key.
C16_SuccessfulLookupMakesKeyMostRecent ==
    \A t \in Tasks :
        (pc[t] = "done" /\ result[t].kind = "ok")
        => (Len(cache) > 0 /\ cache[Len(cache)].key = NameOf(t))

C16_Witness ==
    \E t \in Tasks :
        /\ pc[t] = "done" /\ result[t].kind = "ok" /\ nfetch[t] = 0
        /\ Len(cache) = 2 /\ cache[2].key = NameOf(t)
        /\ cache[2].expires_at < cache[1].expires_at

C17_Step ==
    /\ \A k \in KeysOf(cache') :
          (Find(cache, k) = 0 \/ ItemOf(cache', k) # ItemOf(cache, k))
          => \E t \in Tasks :
                /\ NameOf(t) = k /\ pc[t] = "fetching" /\ pc'[t] = "done"
                /\ result'[t].kind = "ok"
                /\ ItemOf(cache', k) =
                      [key |-> k, value |-> result'[t].value,
                       expires_at |-> now + config.cache_item_ttl]
    /\ \A t \in Tasks, v \in Values :
          FetchOk(t, v) =>
             ItemOf(cache', NameOf(t)).expires_at = now + config.cache_item_ttl

\* C17: a cached item's value and expiry change only when a successful fetch
\* for its key replaces the item, and the expiry is then (time of the put) +
\* cache_item_ttl; hits, failed fetches and lookups of other keys change no
\* item.
C17_ExpiryChangesOnlyOnSuccessfulFetch == [][C17_Step]_vars

C17_Witness ==
    \E t \in Tasks :
        /\ pc[t] = "done" /\ nfetch[t] = 0 /\ result[t].kind = "ok"
        /\ stored[NameOf(t)].at < now
        /\ ItemOf(cache, NameOf(t)).expires_at
              = stored[NameOf(t)].at + config.cache_item_ttl
        /\ now < ItemOf(cache, NameOf(t)).expires_at

\* C18: if every remote fetch eventually returns, every lookup that waits
\* for its fetch eventually returns a value or a failure.
C18_LookupTerminates ==
    \A t \in Tasks : (pc[t] = "fetching") ~> (pc[t] = "done")

C19_Step ==
    \A t \in Tasks :
        (Send(t) /\ pc'[t] = "done")
        => (/\ stored[NameOf(t)].at >= 0
            /\ result'[t] = [kind |-> "ok", value |-> stored[NameOf(t)].value,
                             err |-> "none"]
            /\ now - stored[NameOf(t)].at < config.cache_item_ttl)

\* C19: a value returned without a remote fetch was stored by a successful
\* fetch for the same key whose put happened strictly less than
\* cache_item_ttl before the time of the lookup.
C19_ServedValueIsYoungerThanTtl ==
    /\ [](\A t \in Tasks : (pc[t] = "done" /\ nfetch[t] = 0) => result[t].kind = "ok")
    /\ [][C19_Step]_vars

C19_Witness ==
    \E t \in Tasks :
        /\ pc[t] = "done" /\ nfetch[t] = 0 /\ seen[t] = "fresh"
        /\ config.cache_item_ttl = 2
        /\ now - stored[NameOf(t)].at = 1
        /\ result[t].value = stored[NameOf(t)].value

\* C20: the value cached for a key is the value of the most recent successful
\* fetch of that key, and every value a lookup of the key returns is that
\* value (never a value fetched for another key).
C20_ValueCoherence ==
    /\ \A k \in KeysOf(cache) :
          stored[k].at >= 0 /\ ItemOf(cache, k).value = stored[k].value
    /\ \A k \in Keys \ KeysOf(cache) : stored[k].at < 0
    /\ \A t \in Tasks :
          (pc[t] = "done" /\ result[t].kind = "ok")
          => result[t].value = stored[NameOf(t)].value

C20_Witness ==
    \E t \in Tasks :
        /\ pc[t] = "done" /\ result[t].kind = "ok" /\ nfetch[t] = 0
        /\ Len(cache) = 2 /\ cache[1].value # cache[2].value
        /\ result[t].value = cache[2].value
        /\ prior[t].kind = "ok" /\ builder[t].parameter_name = cache[2].key

====
